---------------------------- MODULE Spec2Model ----------------------------
(***************************************************************************)
(* Model of the figma-mcp fidelity scripts:                                *)
(*   scripts/figma-accuracy-eval.py  tree counters, coverage calculators,  *)
(*                                   report assembly and the run of main   *)
(*   scripts/ssim_compare.py         global SSIM / PSNR / MSE              *)
(*   scripts/figma-agent.py          the polling agent                     *)
(*                                                                         *)
(* JSON data is modelled as tagged values (null, string, number, list,     *)
(* dict); Python's None and JSON's null are the same value, as they are    *)
(* after json.loads.  Floating-point numbers are modelled as exact         *)
(* rationals.                                                              *)
(***************************************************************************)
EXTENDS Integers, Sequences, FiniteSets, TLC

VARIABLES
    cInput,      \* counters: the value handed to both tree counters
    cResult,     \* counters: what the two counters returned
    bundle,      \* coverage: the parsed node bundle
    summary,     \* coverage: what summarize_bundle returned
    img1,        \* images: the first grayscale matrix (rows of samples)
    img2,        \* images: the second grayscale matrix
    imgResult,   \* images: what compare_images returned
    args,        \* run: the parsed command-line arguments of main
    pc,          \* run: where main stands
    fidelity_resp,          \* run: what the figma_fidelity_loop call returned
    bundle_resp,            \* run: what the figma_get_node_bundle call returned
    image_similarity_resp,  \* run: what the figma_image_similarity call returned
    report,      \* run: the report built by main
    exc,         \* run: the exception that is propagating out of main
    calls,       \* run: the tool calls made so far, each with its outcome
    outFile,     \* run: the content of the report file
    stdout,      \* run: lines printed
    stderr,      \* run: error messages written
    exitStatus,  \* run: the exit status of the process
    running,     \* agent: the module-level running flag
    apc,         \* agent: where poll_and_process stands
    data,        \* agent: what the last poll returned
    req_id,      \* agent: the id of the request being processed
    platform,    \* agent: its platform
    prompt,      \* agent: its prompt
    code,        \* agent: the code to submit for it
    ollamaCalls, \* agent: the payloads posted to Ollama in this iteration
    submissions, \* agent: the payloads posted to /agent/result in this iteration
    stopLog      \* agent: what the loop did for a request after a signal arrived

countVars == <<cInput, cResult>>
covVars == <<bundle, summary>>
imgVars == <<img1, img2, imgResult>>
evalVars == <<args, pc, fidelity_resp, bundle_resp, image_similarity_resp, report,
              exc, calls, outFile, stdout, stderr, exitStatus>>
agentVars == <<running, apc, data, req_id, platform, prompt, code, ollamaCalls,
               submissions, stopLog>>
vars == <<cInput, cResult, bundle, summary, img1, img2, imgResult,
          args, pc, fidelity_resp, bundle_resp, image_similarity_resp, report,
          exc, calls, outFile, stdout, stderr, exitStatus,
          running, apc, data, req_id, platform, prompt, code, ollamaCalls,
          submissions, stopLog>>

Idle == [k |-> "idle"]

(***************************************************************************)
(* JSON values                                                             *)
(***************************************************************************)
JNull == [k |-> "null"]
JStr(s) == [k |-> "str", v |-> s]
JNum(n) == [k |-> "num", v |-> n]
JBool(b) == [k |-> "bool", v |-> b]
JList(items) == [k |-> "list", v |-> items]
JDict(f) == [k |-> "dict", v |-> f]

PyNone == JNull
EmptyMap == [key \in {} |-> JNull]

IsDict(x) == x.k = "dict"
IsList(x) == x.k = "list"
IsStr(x) == x.k = "str"

\* d.get(key, default) on a dict d
Get(d, key, default) == IF key \in DOMAIN d.v THEN d.v[key] ELSE default

\* len(d) of a dict d
DictLen(d) == Cardinality(DOMAIN d.v)

Max(a, b) == IF a >= b THEN a ELSE b

(***************************************************************************)
(* Tree counters (figma-accuracy-eval.py, lines 51-79)                     *)
(***************************************************************************)
RECURSIVE count_text_nodes_dsl(_)
RECURSIVE SumDsl(_)

\* sum(count_text_nodes_dsl(c) for c in items)
SumDsl(items) ==
    IF items = <<>> THEN 0
    ELSE count_text_nodes_dsl(Head(items)) + SumDsl(Tail(items))

\* the mutant drops the node's own count when children is not a list
count_text_nodes_dsl_Mutant(dsl) ==
    IF IsDict(dsl) THEN
        LET meta == Get(dsl, "meta", JDict(EmptyMap))
            node_type == IF IsDict(meta) THEN Get(meta, "type", PyNone) ELSE PyNone
            self_count == IF node_type = JStr("TEXT") THEN 1 ELSE 0
            children == Get(dsl, "children", JList(<<>>))
        IN  IF IsList(children) THEN self_count + SumDsl(children.v) ELSE 0
    ELSE IF IsList(dsl) THEN SumDsl(dsl.v)
    ELSE 0

count_text_nodes_dsl(dsl) ==
    IF IsDict(dsl) THEN
        LET meta == Get(dsl, "meta", JDict(EmptyMap))
            node_type == IF IsDict(meta) THEN Get(meta, "type", PyNone) ELSE PyNone
            self_count == IF node_type = JStr("TEXT") THEN 1 ELSE 0
            children == Get(dsl, "children", JList(<<>>))
        IN  IF IsList(children) THEN self_count + SumDsl(children.v) ELSE self_count
    ELSE IF IsList(dsl) THEN SumDsl(dsl.v)
    ELSE 0

RECURSIVE count_text_nodes_with_segments(_)
RECURSIVE SumSeg(_)

\* sum(count_text_nodes_with_segments(c) for c in items)
SumSeg(items) ==
    IF items = <<>> THEN 0
    ELSE count_text_nodes_with_segments(Head(items)) + SumSeg(Tail(items))

count_text_nodes_with_segments(payload) ==
    IF IsDict(payload) THEN
        LET text == Get(payload, "text", PyNone)
            self_count == IF IsDict(text) /\ IsList(Get(text, "segments", PyNone))
                          THEN 1 ELSE 0
            children == Get(payload, "children", JList(<<>>))
        IN  IF IsList(children) THEN self_count + SumSeg(children.v) ELSE self_count
    ELSE IF IsList(payload) THEN SumSeg(payload.v)
    ELSE 0

(***************************************************************************)
(* Coverage calculators (figma-accuracy-eval.py, lines 82-122) and         *)
(* summarize_bundle (lines 142-150).  A result is a mapping from field     *)
(* name to value, as the dict the code returns.                            *)
(***************************************************************************)
\* bool(x) of a JSON value
Truthy(x) ==
    CASE x.k = "null" -> FALSE
      [] x.k = "bool" -> x.v
      [] x.k = "num"  -> x.v # 0
      [] x.k = "str"  -> x.v # ""
      [] x.k = "list" -> x.v # <<>>
      [] x.k = "dict" -> DOMAIN x.v # {}

\* [r for r in refs if isinstance(r, str)]
StrEntries(refs) == SelectSeq(refs, IsStr)

\* sum(1 for ref in image_refs if isinstance(images.get(ref), str))
RECURSIVE CountPresent(_, _)
CountPresent(image_refs, images) ==
    IF image_refs = <<>> THEN 0
    ELSE (IF IsStr(Get(images, Head(image_refs).v, PyNone)) THEN 1 ELSE 0)
         + CountPresent(Tail(image_refs), images)

\* the mutant counts a reference as present as soon as the fill map has the key
image_fill_coverage_Mutant(b) ==
    LET dsl == Get(b, "dsl_json", PyNone)
        assets == IF IsDict(dsl) THEN Get(dsl, "assets", JDict(EmptyMap)) ELSE PyNone
        refs == IF IsDict(assets) THEN Get(assets, "image_refs", PyNone) ELSE PyNone
        image_refs == IF IsList(refs) THEN StrEntries(refs.v) ELSE <<>>
        fills == Get(b, "image_fills", JDict(EmptyMap))
        images == IF IsDict(fills) /\ IsDict(Get(fills, "images", PyNone))
                  THEN Get(fills, "images", JDict(EmptyMap))
                  ELSE JDict(EmptyMap)
        total == Len(image_refs)
        present == Len(SelectSeq(image_refs, LAMBDA r : r.v \in DOMAIN images.v))
    IN  [total |-> total, present |-> present, missing |-> Max(0, total - present)]

image_fill_coverage(b) ==
    LET dsl == Get(b, "dsl_json", PyNone)
        assets == IF IsDict(dsl) THEN Get(dsl, "assets", JDict(EmptyMap)) ELSE PyNone
        refs == IF IsDict(assets) THEN Get(assets, "image_refs", PyNone) ELSE PyNone
        image_refs == IF IsList(refs) THEN StrEntries(refs.v) ELSE <<>>
        fills == Get(b, "image_fills", JDict(EmptyMap))
        images == IF IsDict(fills) /\ IsDict(Get(fills, "images", PyNone))
                  THEN Get(fills, "images", JDict(EmptyMap))
                  ELSE JDict(EmptyMap)
        total == Len(image_refs)
        present == CountPresent(image_refs, images)
    IN  [total |-> total, present |-> present, missing |-> Max(0, total - present)]

\* the mutant skips the error check and reports the sizes of the two mappings
variables_resolved_ratio_Mutant(b) ==
    LET variables == Get(b, "variables", JDict(EmptyMap))
        raw == IF IsDict(variables) THEN Get(variables, "variables", JDict(EmptyMap))
               ELSE JDict(EmptyMap)
        resolved == IF IsDict(variables) THEN Get(variables, "resolved", JDict(EmptyMap))
                    ELSE JDict(EmptyMap)
        total == IF IsDict(raw) THEN DictLen(raw) ELSE 0
        present == IF IsDict(resolved) THEN DictLen(resolved) ELSE 0
    IN  [total |-> total, resolved |-> present, missing |-> Max(0, total - present)]

variables_resolved_ratio(b) ==
    LET variables == Get(b, "variables", JDict(EmptyMap))
    IN  IF IsDict(variables) /\ "error" \in DOMAIN variables.v
        THEN [total |-> 1, resolved |-> 0, error |-> Get(variables, "error", PyNone)]
        ELSE
          LET raw == IF IsDict(variables)
                     THEN Get(variables, "variables", JDict(EmptyMap))
                     ELSE JDict(EmptyMap)
              resolved == IF IsDict(variables)
                          THEN Get(variables, "resolved", JDict(EmptyMap))
                          ELSE JDict(EmptyMap)
              total == IF IsDict(raw) THEN DictLen(raw) ELSE 0
              present == IF IsDict(resolved) THEN DictLen(resolved) ELSE 0
          IN  [total |-> total, resolved |-> present,
               missing |-> Max(0, total - present)]

\* the mutant clamps the captured count to the number of TEXT nodes
text_segment_coverage_Mutant(b) ==
    LET dsl == Get(b, "dsl_json", PyNone)
        total_text_nodes == count_text_nodes_dsl(dsl)
        plugin == Get(b, "plugin_snapshot", JDict(EmptyMap))
        payload == IF IsDict(plugin) THEN Get(plugin, "payload", PyNone) ELSE PyNone
        counted == count_text_nodes_with_segments(payload)
        present == IF counted > total_text_nodes THEN total_text_nodes ELSE counted
    IN  [total_text_nodes |-> total_text_nodes,
         nodes_with_segments |-> present,
         missing |-> Max(0, total_text_nodes - present),
         plugin_ok |-> IF IsDict(plugin) THEN Truthy(Get(plugin, "ok", PyNone))
                       ELSE FALSE]

\* the mutant reports total - matched without the floor at 0
text_segment_coverage_NoFloor(b) ==
    LET dsl == Get(b, "dsl_json", PyNone)
        total_text_nodes == count_text_nodes_dsl(dsl)
        plugin == Get(b, "plugin_snapshot", JDict(EmptyMap))
        payload == IF IsDict(plugin) THEN Get(plugin, "payload", PyNone) ELSE PyNone
        present == count_text_nodes_with_segments(payload)
    IN  [total_text_nodes |-> total_text_nodes,
         nodes_with_segments |-> present,
         missing |-> total_text_nodes - present,
         plugin_ok |-> IF IsDict(plugin) THEN Truthy(Get(plugin, "ok", PyNone))
                       ELSE FALSE]

text_segment_coverage(b) ==
    LET dsl == Get(b, "dsl_json", PyNone)
        total_text_nodes == count_text_nodes_dsl(dsl)
        plugin == Get(b, "plugin_snapshot", JDict(EmptyMap))
        payload == IF IsDict(plugin) THEN Get(plugin, "payload", PyNone) ELSE PyNone
        present == count_text_nodes_with_segments(payload)
    IN  [total_text_nodes |-> total_text_nodes,
         nodes_with_segments |-> present,
         missing |-> Max(0, total_text_nodes - present),
         plugin_ok |-> IF IsDict(plugin) THEN Truthy(Get(plugin, "ok", PyNone))
                       ELSE FALSE]

\* summarize_bundle(result): {} when the parsed result is not a dict
summarize_bundle(result) ==
    IF ~IsDict(result) THEN EmptyMap
    ELSE LET fidelity == Get(result, "fidelity", JDict(EmptyMap))
         IN  [fidelity |-> IF IsDict(fidelity) THEN fidelity ELSE PyNone,
              image_fill_coverage |-> image_fill_coverage(result),
              variables_resolved |-> variables_resolved_ratio(result),
              text_segments |-> text_segment_coverage(result)]

(***************************************************************************)
(* Bounded JSON trees: every value built from at most n cells, a cell      *)
(* being a scalar, a list or a dict; a dict carries one of the given       *)
(* labels (its non-children keys) and children that are absent, a list or  *)
(* a value that is not a list.                                             *)
(***************************************************************************)
MaxSize == 3

Scalars == {JNull, JStr("TEXT")}

\* meta absent, meta not a dict, meta.type TEXT, meta.type something else
DslLabels ==
    { EmptyMap,
      [meta |-> JStr("TEXT")],
      [meta |-> JDict([type |-> JStr("TEXT")])],
      [meta |-> JDict([type |-> JStr("FRAME")])] }

\* text absent, text not a dict, segments absent, segments not a list,
\* segments an empty list, segments a non-empty list
Segment == JDict([characters |-> JStr("hi")])

PayloadLabels ==
    { EmptyMap,
      [text |-> JStr("hi")],
      [text |-> JDict([characters |-> JStr("hi")])],
      [text |-> JDict([segments |-> JStr("hi")])],
      [text |-> JDict([segments |-> JList(<<>>)])],
      [text |-> JDict([segments |-> JList(<<Segment>>)])] }

RECURSIVE ValsOfSize(_, _)
RECURSIVE ForestsOfSize(_, _)

\* the sequences of values whose sizes add up to n
ForestsOfSize(labels, n) ==
    IF n = 0 THEN {<<>>}
    ELSE UNION { { <<val>> \o rest : val \in ValsOfSize(labels, m),
                                    rest \in ForestsOfSize(labels, n - m) }
                 : m \in 1..n }

\* the values of size exactly n >= 1
ValsOfSize(labels, n) ==
    LET forests == ForestsOfSize(labels, n - 1)
        nonLists == IF n = 1 THEN {}
                    ELSE { val \in ValsOfSize(labels, n - 1) : ~IsList(val) }
    IN  (IF n = 1 THEN Scalars ELSE {})
        \cup { JList(f) : f \in forests }
        \cup (IF n = 1 THEN { JDict(l) : l \in labels } ELSE {})
        \cup { JDict(l @@ ("children" :> JList(f))) : l \in labels, f \in forests }
        \cup { JDict(l @@ ("children" :> c)) : l \in labels, c \in nonLists }

ValsUpTo(labels, n) == UNION { ValsOfSize(labels, m) : m \in 1..n }

CountIdle == cInput = Idle /\ cResult = Idle
CovIdle == bundle = Idle /\ summary = Idle
ImgIdle == img1 = Idle /\ img2 = Idle /\ imgResult = Idle
EvalIdle ==
    /\ args = Idle /\ pc = "idle" /\ fidelity_resp = Idle /\ bundle_resp = Idle
    /\ image_similarity_resp = Idle /\ report = Idle /\ exc = Idle
    /\ calls = <<>> /\ outFile = Idle /\ stdout = <<>> /\ stderr = <<>>
    /\ exitStatus = Idle
AgentIdle ==
    /\ running = FALSE /\ apc = "idle" /\ data = Idle /\ req_id = Idle
    /\ platform = Idle /\ prompt = Idle /\ code = Idle
    /\ ollamaCalls = <<>> /\ submissions = <<>> /\ stopLog = <<>>

(***************************************************************************)
(* The counters applied to one input                                       *)
(***************************************************************************)
\* the input is any value of at most MaxSize cells, over either label set
CountInit ==
    /\ \E labels \in {DslLabels, PayloadLabels}, n \in 1..MaxSize :
          \/ n = 1 /\ cInput \in Scalars
          \/ n = 1 /\ \E l \in labels : cInput = JDict(l)
          \/ \E f \in ForestsOfSize(labels, n - 1) : cInput = JList(f)
          \/ \E l \in labels, f \in ForestsOfSize(labels, n - 1) :
                cInput = JDict(l @@ ("children" :> JList(f)))
          \/ n > 1 /\ \E l \in labels, c \in ValsOfSize(labels, n - 1) :
                ~IsList(c) /\ cInput = JDict(l @@ ("children" :> c))
    /\ cResult = Idle

\* both counters are called on the input; neither has a raising path
Count ==
    /\ cResult = Idle
    /\ cInput # Idle
    /\ cResult' = [dsl |-> count_text_nodes_dsl(cInput),
                   segments |-> count_text_nodes_with_segments(cInput)]
    /\ UNCHANGED <<cInput, covVars, imgVars, evalVars, agentVars>>

InitCount == CountInit /\ CovIdle /\ ImgIdle /\ EvalIdle /\ AgentIdle

SpecCount == InitCount /\ [][Count]_vars

(***************************************************************************)
(* The coverage calculators applied to one parsed node bundle              *)
(***************************************************************************)
MaxTextSize == 5
MaxRefs == 3
MaxVars == 2

SeqsUpTo(S, n) == UNION { [1..m -> S] : m \in 0..n }

\* well-formed node trees: a dict with a label and, unless a leaf, a list
\* of child nodes; n counts the nodes
RECURSIVE NodesOfSize(_, _)
RECURSIVE NodeForestsOfSize(_, _)

NodeForestsOfSize(labels, n) ==
    IF n = 0 THEN {<<>>}
    ELSE UNION { { <<node>> \o rest : node \in NodesOfSize(labels, m),
                                     rest \in NodeForestsOfSize(labels, n - m) }
                 : m \in 1..n }

NodesOfSize(labels, n) ==
    IF n = 1 THEN { JDict(l) : l \in labels }
    ELSE { JDict(l @@ ("children" :> JList(f))) :
             l \in labels, f \in NodeForestsOfSize(labels, n - 1) }

CovDslLabels ==
    { [meta |-> JDict([type |-> JStr("TEXT")])],
      [meta |-> JDict([type |-> JStr("FRAME")])] }

CovPayloadLabels ==
    { [id |-> JStr("n")],
      [text |-> JDict([segments |-> JList(<<>>)])],
      [text |-> JDict([segments |-> JList(<<Segment>>)])] }

TextLeaf == JDict([meta |-> JDict([type |-> JStr("TEXT")])])
SegLeaf == JDict([text |-> JDict([segments |-> JList(<<>>)])])

\* plugin_snapshot values around one captured node, well-formed or not
PluginShapes ==
    { JNull, JStr("timeout"), JList(<<SegLeaf>>), JDict(EmptyMap),
      JDict([ok |-> JBool(FALSE)]),
      JDict([payload |-> SegLeaf]),
      JDict([ok |-> JBool(FALSE), payload |-> SegLeaf]),
      JDict([ok |-> JNum(1), payload |-> JStr("x")]) }

RefEntries == {JStr("a"), JStr("b"), JStr("c"), JNum(7)}
FillKeys == {"a", "b", "c"}
FillValues == {JStr("data"), JNull}
FillMaps == UNION { [ks -> FillValues] : ks \in SUBSET FillKeys }

VarIds == { <<"var", i>> : i \in 1..MaxVars }
\* a raw or resolved entry of the variable bundle: a mapping keyed by
\* variable id, or something that is not a mapping
VarMaps == { JDict([id \in ids |-> JStr("value")]) : ids \in SUBSET VarIds }
               \cup { JList(<<JStr("value")>>) }
ErrorValues == {JStr("plugin timeout"), JNull}

\* the optional entries of a dict: each key is absent or takes one value
OptField(key, values) == { EmptyMap } \cup { key :> val : val \in values }

CovInit ==
    /\ summary = Idle
    /\ \/ \E i \in 1..MaxTextSize, j \in 1..MaxTextSize :
            /\ i + j <= MaxTextSize
            /\ \E dsl \in NodesOfSize(CovDslLabels, i) :
                 \/ \E payload \in NodesOfSize(CovPayloadLabels, j) :
                      bundle = JDict([dsl_json |-> dsl,
                                      plugin_snapshot |->
                                          JDict([ok |-> JBool(TRUE),
                                                 payload |-> payload])])
                 \/ \E f \in NodeForestsOfSize(CovPayloadLabels, j) :
                      bundle = JDict([dsl_json |-> dsl,
                                      plugin_snapshot |->
                                          JDict([ok |-> JBool(TRUE),
                                                 payload |-> JList(f)])])
       \/ \E plugin \in PluginShapes,
             dsl \in {TextLeaf, JNull, JList(<<TextLeaf, TextLeaf>>)} :
            bundle = JDict([dsl_json |-> dsl, plugin_snapshot |-> plugin])
       \/ \E dsl \in {TextLeaf, JStr("x")} : bundle = JDict([dsl_json |-> dsl])
       \/ \E refs \in SeqsUpTo(RefEntries, MaxRefs), images \in FillMaps :
            bundle = JDict([dsl_json |->
                                JDict([assets |-> JDict([image_refs |-> JList(refs)])]),
                            image_fills |-> JDict([images |-> JDict(images)])])
       \/ \E assets \in {JNull, JDict(EmptyMap), JDict([image_refs |-> JStr("a")]),
                         JDict([image_refs |-> JList(<<JStr("a")>>)])},
             fills \in {JNull, JDict(EmptyMap), JDict([images |-> JStr("a")]),
                        JDict([images |-> JDict([a |-> JStr("data")])])} :
            \/ bundle = JDict([dsl_json |-> JDict([assets |-> assets]),
                               image_fills |-> fills])
            \/ bundle = JDict([dsl_json |-> JDict([assets |-> assets])])
       \/ \E err \in OptField("error", ErrorValues),
             raw \in OptField("variables", VarMaps),
             resolved \in OptField("resolved", VarMaps) :
            bundle = JDict([variables |-> JDict(err @@ raw @@ resolved)])
       \/ \E variables \in {JNull, JList(<<JStr("error")>>), JStr("error")} :
            bundle = JDict([variables |-> variables])
       \/ bundle \in {JNull, JList(<<>>), JDict(EmptyMap)}

\* summarize_bundle is called on the parsed bundle
SummarizeBundle ==
    /\ summary = Idle
    /\ bundle # Idle
    /\ summary' = summarize_bundle(bundle)
    /\ UNCHANGED <<bundle, countVars, imgVars, evalVars, agentVars>>

InitCoverage == CovInit /\ CountIdle /\ ImgIdle /\ EvalIdle /\ AgentIdle

SpecCoverage == InitCoverage /\ [][SummarizeBundle]_vars

\* the three calculators have returned for the bundle
Summarized == summary # Idle /\ summary # EmptyMap

(***************************************************************************)
(* Exact arithmetic for the image statistics.  A natural number too large  *)
(* for one machine word is a sequence of digits in base Base, least        *)
(* significant first, without leading zeros (so equal numbers are equal    *)
(* sequences).                                                             *)
(***************************************************************************)
Base == 10 ^ 3

RECURSIVE ToBig(_)
ToBig(x) == IF x = 0 THEN <<>> ELSE <<x % Base>> \o ToBig(x \div Base)

RECURSIVE BigTimes(_, _, _)
\* a * m + carry, for a small factor m
BigTimes(a, m, carry) ==
    IF a = <<>> THEN ToBig(carry)
    ELSE LET t == Head(a) * m + carry
         IN  IF m = 0 /\ carry = 0 THEN <<>>
             ELSE <<t % Base>> \o BigTimes(Tail(a), m, t \div Base)

RECURSIVE BigAdd(_, _, _)
BigAdd(a, b, carry) ==
    IF a = <<>> /\ b = <<>> THEN ToBig(carry)
    ELSE LET x == IF a = <<>> THEN 0 ELSE Head(a)
             y == IF b = <<>> THEN 0 ELSE Head(b)
             t == x + y + carry
         IN  <<t % Base>> \o BigAdd(IF a = <<>> THEN <<>> ELSE Tail(a),
                                   IF b = <<>> THEN <<>> ELSE Tail(b),
                                   t \div Base)

BigShift(a) == IF a = <<>> THEN <<>> ELSE <<0>> \o a

RECURSIVE BigMul(_, _)
BigMul(a, b) ==
    IF a = <<>> \/ b = <<>> THEN <<>>
    ELSE BigAdd(BigTimes(a, Head(b), 0), BigShift(BigMul(a, Tail(b))), 0)

RECURSIVE BigLessFrom(_, _, _)
\* a < b for digit sequences of equal length, compared from digit i down
BigLessFrom(a, b, i) ==
    IF i = 0 THEN FALSE
    ELSE IF a[i] # b[i] THEN a[i] < b[i]
    ELSE BigLessFrom(a, b, i - 1)

BigLess(a, b) ==
    IF Len(a) # Len(b) THEN Len(a) < Len(b) ELSE BigLessFrom(a, b, Len(a))

RECURSIVE BigQuot(_, _, _, _)
\* the largest q in lo..hi with q * d <= x, given lo * d <= x
BigQuot(x, d, lo, hi) ==
    IF lo = hi THEN lo
    ELSE LET mid == (lo + hi + 1) \div 2
         IN  IF BigLess(x, BigTimes(d, mid, 0))
             THEN BigQuot(x, d, lo, mid - 1)
             ELSE BigQuot(x, d, mid, hi)

\* x / d rounded to the nearest integer, ties to the even one, for a
\* quotient of at most hi
BigRound(x, d, hi) ==
    LET q == BigQuot(x, d, 0, hi)
        twice == BigTimes(x, 2, 0)
        half == BigTimes(d, 2 * q + 1, 0)
    IN  IF BigLess(half, twice) THEN q + 1
        ELSE IF half = twice THEN (IF q % 2 = 0 THEN q ELSE q + 1)
        ELSE q

RECURSIVE GCD(_, _)
GCD(a, b) == IF b = 0 THEN a ELSE GCD(b, a % b)

(***************************************************************************)
(* Image statistics (ssim_compare.py).  A matrix is a sequence of rows of  *)
(* samples; exact rationals stand for the float64 values.                  *)
(***************************************************************************)
MAX_PIXEL == 255
\* C1 = 6.5025 and C2 = 58.5225, as 2601/400 and 23409/400
CScale == 400
C1Scaled == 2601
C2Scaled == 23409
Million == 1000000

Shape(img) == <<Len(img), Len(img[1])>>
Min(a, b) == IF a <= b THEN a ELSE b

\* the mutant keeps the bottom-right region, img[-h:, -w:]
Crop_Mutant(img, h, w) ==
    [i \in 1..h |-> [j \in 1..w |-> img[Len(img) - h + i][Len(img[1]) - w + j]]]

\* img[:h, :w]
Crop(img, h, w) == [i \in 1..h |-> [j \in 1..w |-> img[i][j]]]

\* the pair of matrices the statistics are computed on
Reconcile(a, b) ==
    IF Shape(a) # Shape(b)
    THEN LET h == Min(Shape(a)[1], Shape(b)[1])
             w == Min(Shape(a)[2], Shape(b)[2])
         IN  <<Crop(a, h, w), Crop(b, h, w)>>
    ELSE <<a, b>>

RECURSIVE SeqSumInt(_)
SeqSumInt(s) == IF s = <<>> THEN 0 ELSE Head(s) + SeqSumInt(Tail(s))

\* the sum of all samples of a matrix
SumCells(a) == SeqSumInt([i \in 1..Len(a) |-> SeqSumInt(a[i])])

\* a * b and a - b, sample by sample
Times(a, b) == [i \in 1..Len(a) |-> [j \in 1..Len(a[i]) |-> a[i][j] * b[i][j]]]
Minus(a, b) == [i \in 1..Len(a) |-> [j \in 1..Len(a[i]) |-> a[i][j] - b[i][j]]]

Cells(a) == Len(a) * Len(a[1])

\* a reported number with six decimals: sign * (units + micro / 10^6)
Dec(sign, units, micro) == [sign |-> sign, units |-> units, micro |-> micro]

\* ssim(img1, img2) as the exact fraction num / den, den > 0, each a product
\* of two factors scaled by CScale * n^2:
\*   (2 mu1 mu2 + C1) (2 sigma12 + C2) / ((mu1^2 + mu2^2 + C1) (sigma1_sq + sigma2_sq + C2))
ssim(a, b) ==
    LET pair == Reconcile(a, b)
        x == pair[1]
        y == pair[2]
        n == Cells(x)
        s1 == SumCells(x)
        s2 == SumCells(y)
        s11 == SumCells(Times(x, x))
        s22 == SumCells(Times(y, y))
        s12 == SumCells(Times(x, y))
        \* n^2 * variance and covariance
        var1 == n * s11 - s1 * s1
        var2 == n * s22 - s2 * s2
        cov == n * s12 - s1 * s2
        lumNum == 2 * CScale * s1 * s2 + C1Scaled * n * n
        strNum == 2 * CScale * cov + C2Scaled * n * n
        lumDen == CScale * (s1 * s1 + s2 * s2) + C1Scaled * n * n
        strDen == CScale * (var1 + var2) + C2Scaled * n * n
        absStr == IF strNum < 0 THEN 0 - strNum ELSE strNum
    IN  [sign |-> IF strNum < 0 THEN -1 ELSE 1,
         num |-> BigMul(ToBig(lumNum), ToBig(absStr)),
         den |-> BigMul(ToBig(lumDen), ToBig(strDen))]

\* mse(img1, img2) as the exact fraction num / den
mse(a, b) ==
    LET pair == Reconcile(a, b)
        x == pair[1]
        y == pair[2]
    IN  [num |-> SumCells(Times(Minus(x, y), Minus(x, y))), den |-> Cells(x)]

Infinity == [k |-> "inf"]

\* psnr(img1, img2): float('inf') when the mse is 0, otherwise
\* 10 * log10(arg) for the fraction arg = 255^2 / mse, kept in lowest terms
\* (log10 is one-to-one, so two values are equal exactly when their
\* arguments are)
psnr(a, b) ==
    LET mse_val == mse(a, b)
    IN  IF mse_val.num = 0 THEN Infinity
        ELSE LET num == MAX_PIXEL * MAX_PIXEL * mse_val.den
                 g == GCD(num, mse_val.num)
             IN  [k |-> "10log10", num |-> num \div g, den |-> mse_val.num \div g]

\* round(ssim_score, 6)
Round6Ssim(s) ==
    LET r == BigRound(BigTimes(s.num, Million, 0), s.den, 2 * Million)
    IN  Dec(IF r = 0 THEN 1 ELSE s.sign, r \div Million, r % Million)

\* round(mse_score, 6)
Round6Mse(m) ==
    LET units == m.num \div m.den
        rest == m.num % m.den
        r == BigRound(ToBig(rest * Million), ToBig(m.den), Million)
    IN  Dec(1, units + r \div Million, r % Million)

\* round(psnr_score, 2) of a finite value
Round2(p) == [k |-> "round2", of |-> p]

PsnrSentinel == Dec(1, 100, 0)

\* the mutant reports the psnr as computed
compare_images_Mutant(a, b) ==
    [ssim |-> Round6Ssim(ssim(a, b)),
     psnr |-> psnr(a, b),
     mse |-> Round6Mse(mse(a, b))]

compare_images(a, b) ==
    LET ssim_score == ssim(a, b)
        psnr_score == psnr(a, b)
        mse_score == mse(a, b)
    IN  [ssim |-> Round6Ssim(ssim_score),
         psnr |-> IF psnr_score # Infinity THEN Round2(psnr_score) ELSE PsnrSentinel,
         mse |-> Round6Mse(mse_score)]

(***************************************************************************)
(* compare_images applied to one pair of matrices                          *)
(***************************************************************************)
MaxCells == 4

\* the samples a grayscale image takes here: black and white
PixelValues == {0, MAX_PIXEL}

Matrices(h, w) == [1..h -> [1..w -> PixelValues]]

ImgInit ==
    /\ \E h1 \in 1..MaxCells, w1 \in 1..MaxCells,
          h2 \in 1..MaxCells, w2 \in 1..MaxCells :
          /\ h1 * w1 <= MaxCells
          /\ h2 * w2 <= MaxCells
          /\ img1 \in Matrices(h1, w1)
          /\ img2 \in Matrices(h2, w2)
    /\ imgResult = Idle

CompareImages ==
    /\ imgResult = Idle
    /\ imgResult' = compare_images(img1, img2)
    /\ UNCHANGED <<img1, img2, countVars, covVars, evalVars, agentVars>>

InitImage == ImgInit /\ CountIdle /\ CovIdle /\ EvalIdle /\ AgentIdle

SpecImage == InitImage /\ [][CompareImages]_vars

(***************************************************************************)
(* The evaluation run (figma-accuracy-eval.py: call_tool, lines 26-48;     *)
(* summarize_fidelity, lines 125-139; main, lines 153-285; the entry       *)
(* point, lines 288-293).  Scores are numbers in hundredths.               *)
(***************************************************************************)
\* post_json raised: no response arrived, or it was not JSON
TransportFailure == [k |-> "failure"]

\* a string holding the JSON text of val
JsonText(val) == [k |-> "str", v |-> "json", json |-> val]

Raised(type, msg) == [raised |-> TRUE, exc |-> [type |-> type, msg |-> msg]]
Returned(val) == [raised |-> FALSE, value |-> val]

\* json.loads(text), None after a JSONDecodeError
Loads(text) == IF "json" \in DOMAIN text THEN text.json ELSE PyNone

\* call_tool(url, name, args), given what the server answers
call_tool(response) ==
    IF response = TransportFailure THEN Raised("URLError", JStr("connection refused"))
    ELSE IF ~IsDict(response) THEN Raised("AttributeError", JStr("get"))
    ELSE IF "error" \in DOMAIN response.v THEN
        IF IsDict(response.v["error"])
        THEN Raised("RuntimeError",
                    Get(response.v["error"], "message", JStr("Unknown MCP error")))
        ELSE Raised("AttributeError", JStr("get"))
    ELSE
        LET result == Get(response, "result", JDict(EmptyMap))
            content == IF IsDict(result) THEN Get(result, "content", PyNone) ELSE PyNone
            first == IF IsList(content) /\ content.v # <<>> THEN content.v[1] ELSE PyNone
        IN  IF IsList(content) /\ content.v # <<>> /\ ~IsDict(first)
            THEN Raised("AttributeError", JStr("get"))
            ELSE LET text == IF IsDict(first) THEN Get(first, "text", PyNone) ELSE PyNone
                     parsed == IF IsStr(text) THEN Loads(text) ELSE PyNone
                 IN  Returned([raw |-> result, text |-> text, parsed |-> parsed])

\* the mutant computes the verdict itself, from best_score and target_score
summarize_fidelity_Mutant(result) ==
    IF ~IsDict(result) THEN EmptyMap
    ELSE LET best == Get(result, "best", JDict(EmptyMap))
             fidelity == IF IsDict(best) THEN Get(best, "fidelity", JDict(EmptyMap))
                         ELSE PyNone
             best_score == Get(result, "best_score", PyNone)
             target_score == Get(result, "target_score", PyNone)
             base == [target_score |-> target_score,
                      best_score |-> best_score,
                      achieved |-> IF best_score.k = "num" /\ target_score.k = "num"
                                   THEN JBool(best_score.v >= target_score.v)
                                   ELSE JBool(FALSE),
                      attempts |-> IF IsList(Get(result, "attempts", PyNone))
                                   THEN JNum(Len(Get(result, "attempts", PyNone).v))
                                   ELSE PyNone]
         IN  IF IsDict(fidelity) THEN base @@ [fidelity |-> fidelity] ELSE base

summarize_fidelity(result) ==
    IF ~IsDict(result) THEN EmptyMap
    ELSE LET best == Get(result, "best", JDict(EmptyMap))
             fidelity == IF IsDict(best) THEN Get(best, "fidelity", JDict(EmptyMap))
                         ELSE PyNone
             base == [target_score |-> Get(result, "target_score", PyNone),
                      best_score |-> Get(result, "best_score", PyNone),
                      achieved |-> Get(result, "achieved", PyNone),
                      attempts |-> IF IsList(Get(result, "attempts", PyNone))
                                   THEN JNum(Len(Get(result, "attempts", PyNone).v))
                                   ELSE PyNone]
         IN  IF IsDict(fidelity) THEN base @@ [fidelity |-> fidelity] ELSE base

\* what the three tools may answer inside a well-formed response
Attempt == JDict([depth |-> JNum(4)])

FidelityResults ==
    { JDict([target_score |-> JNum(95), best_score |-> JNum(97),
             achieved |-> JBool(TRUE), attempts |-> JList(<<Attempt>>),
             best |-> JDict([fidelity |-> JDict([overall |-> JNum(97)])])]),
      JDict([target_score |-> JNum(95), best_score |-> JNum(80),
             achieved |-> JBool(FALSE), attempts |-> JList(<<Attempt, Attempt>>),
             best |-> JDict([fidelity |-> JStr("n/a")])]),
      JDict([target_score |-> JNum(95), best_score |-> JNum(97)]),
      JDict([achieved |-> JBool(TRUE), attempts |-> JNum(3), best |-> JNull]),
      JList(<<>>) }

AssetNode(refs) ==
    JDict([meta |-> JDict([type |-> JStr("TEXT")]),
           assets |-> JDict([image_refs |-> JList(refs)])])

BundleResults ==
    { JDict([fidelity |-> JDict([overall |-> JNum(97)]),
             dsl_json |-> AssetNode(<<JStr("a")>>),
             image_fills |-> JDict([images |-> JDict([a |-> JStr("data")])]),
             variables |-> JDict([variables |-> JDict([v1 |-> JStr("value")]),
                                  resolved |-> JDict([v1 |-> JStr("value")])]),
             plugin_snapshot |-> JDict([ok |-> JBool(TRUE), payload |-> SegLeaf])]),
      JDict([dsl_json |-> AssetNode(<<JStr("a"), JStr("b")>>),
             image_fills |-> JDict([images |-> JDict(EmptyMap)]),
             variables |-> JDict([error |-> JStr("plugin timeout")])]),
      JDict(EmptyMap),
      JNull }

SimilarityResults ==
    { JDict([ssim |-> JNum(99), psnr |-> JNum(4000)]),
      JDict([ssim |-> JNum(50), psnr |-> JNum(1200)]),
      JNull }

OkResponse(text) ==
    JDict([result |-> JDict([content |-> JList(<<JDict([text |-> text])>>)])])

\* every answer of the server to one call: a failed transport, an error
\* response, a result holding the JSON text of a payload, or a result of
\* another shape
Responses(payloads) ==
    { TransportFailure,
      JList(<<>>),
      JDict([error |-> JDict([message |-> JStr("node not found")])]),
      JDict([error |-> JDict(EmptyMap)]),
      JDict([error |-> JStr("node not found")]),
      JDict(EmptyMap),
      JDict([result |-> JStr("ok")]),
      JDict([result |-> JDict([content |-> JList(<<>>)])]),
      JDict([result |-> JDict([content |-> JList(<<JStr("ok")>>)])]),
      OkResponse(JStr("not json")),
      OkResponse(JNum(1)) }
    \cup { OkResponse(JsonText(val)) : val \in payloads }

OutPath == "out_path"
TargetScore == JNum(95)
TargetSsim == JNum(90)

EvalInit ==
    /\ \E compare \in {PyNone, JStr(""), JStr("2:1")},
          target_ssim \in {PyNone, TargetSsim},
          full \in BOOLEAN :
          args = [node_id |-> JStr("1:2"), compare_node_id |-> compare,
                  target_score |-> TargetScore, target_ssim |-> target_ssim,
                  full |-> full]
    /\ pc = "fidelity"
    /\ fidelity_resp = Idle
    /\ bundle_resp = Idle
    /\ image_similarity_resp = Idle
    /\ report = Idle
    /\ exc = Idle
    /\ calls = <<>>
    /\ outFile = Idle
    /\ stdout = <<>>
    /\ stderr = <<>>
    /\ exitStatus = Idle

otherThanEval == <<countVars, covVars, imgVars, agentVars>>

\* line 235: fidelity_resp = call_tool(..., "figma_fidelity_loop", ...)
CallFidelityLoop ==
    /\ pc = "fidelity"
    /\ \E response \in Responses(FidelityResults) :
          LET r == call_tool(response)
          IN  /\ calls' = Append(calls, [tool |-> "figma_fidelity_loop",
                                         ok |-> ~r.raised])
              /\ IF r.raised
                 THEN pc' = "raised" /\ exc' = r.exc /\ UNCHANGED fidelity_resp
                 ELSE pc' = "bundle" /\ fidelity_resp' = r.value /\ UNCHANGED exc
    /\ UNCHANGED <<args, bundle_resp, image_similarity_resp, report, outFile,
                   stdout, stderr, exitStatus, otherThanEval>>

\* line 236: bundle_resp = call_tool(..., "figma_get_node_bundle", ...)
CallNodeBundle ==
    /\ pc = "bundle"
    /\ \E response \in Responses(BundleResults) :
          LET r == call_tool(response)
          IN  /\ calls' = Append(calls, [tool |-> "figma_get_node_bundle",
                                         ok |-> ~r.raised])
              /\ IF r.raised
                 THEN pc' = "raised" /\ exc' = r.exc /\ UNCHANGED bundle_resp
                 ELSE pc' = "similarity" /\ bundle_resp' = r.value /\ UNCHANGED exc
    /\ UNCHANGED <<args, fidelity_resp, image_similarity_resp, report, outFile,
                   stdout, stderr, exitStatus, otherThanEval>>

\* lines 238-239: no comparison node, no call
SkipImageSimilarity ==
    /\ pc = "similarity"
    /\ ~Truthy(args.compare_node_id)
    /\ image_similarity_resp' = PyNone
    /\ pc' = "report"
    /\ UNCHANGED <<args, fidelity_resp, bundle_resp, report, exc, calls, outFile,
                   stdout, stderr, exitStatus, otherThanEval>>

\* the mutant goes on without the image similarity when its call fails
CallImageSimilarity_Mutant ==
    /\ pc = "similarity"
    /\ Truthy(args.compare_node_id)
    /\ \E response \in Responses(SimilarityResults) :
          LET r == call_tool(response)
          IN  /\ calls' = Append(calls, [tool |-> "figma_image_similarity",
                                         ok |-> ~r.raised])
              /\ pc' = "report"
              /\ image_similarity_resp' = IF r.raised THEN PyNone ELSE r.value
              /\ UNCHANGED exc
    /\ UNCHANGED <<args, fidelity_resp, bundle_resp, report, outFile,
                   stdout, stderr, exitStatus, otherThanEval>>

\* lines 239-255: image_similarity_resp = call_tool(..., "figma_image_similarity", ...)
CallImageSimilarity ==
    /\ pc = "similarity"
    /\ Truthy(args.compare_node_id)
    /\ \E response \in Responses(SimilarityResults) :
          LET r == call_tool(response)
          IN  /\ calls' = Append(calls, [tool |-> "figma_image_similarity",
                                         ok |-> ~r.raised])
              /\ IF r.raised
                 THEN /\ pc' = "raised" /\ exc' = r.exc
                      /\ image_similarity_resp' = PyNone
                 ELSE /\ pc' = "report" /\ image_similarity_resp' = r.value
                      /\ UNCHANGED exc
    /\ UNCHANGED <<args, fidelity_resp, bundle_resp, report, outFile,
                   stdout, stderr, exitStatus, otherThanEval>>

\* lines 257-279: the report, with the full tool payloads under --full
BuildReport ==
    /\ pc = "report"
    /\ LET has_similarity == image_similarity_resp # PyNone
           base ==
               [generated_at |-> JStr("now"),
                inputs |-> [node_id |-> args.node_id,
                            compare_node_id |-> args.compare_node_id,
                            target_score |-> args.target_score],
                summary |->
                    [fidelity |-> summarize_fidelity(fidelity_resp.parsed),
                     bundle |-> summarize_bundle(bundle_resp.parsed),
                     image_similarity |->
                         IF has_similarity THEN image_similarity_resp.parsed
                         ELSE PyNone]]
           full == [fidelity_loop |-> fidelity_resp, bundle |-> bundle_resp]
           similarity == [image_similarity |-> image_similarity_resp]
       IN  report' = IF ~args.full THEN base
                     ELSE IF has_similarity THEN base @@ full @@ similarity
                     ELSE base @@ full
    /\ pc' = "write"
    /\ UNCHANGED <<args, fidelity_resp, bundle_resp, image_similarity_resp, exc,
                   calls, outFile, stdout, stderr, exitStatus, otherThanEval>>

\* lines 281-285: the file is written and its path printed
WriteReport ==
    /\ pc = "write"
    /\ outFile' = report
    /\ stdout' = Append(stdout, OutPath)
    /\ exitStatus' = 0
    /\ pc' = "done"
    /\ UNCHANGED <<args, fidelity_resp, bundle_resp, image_similarity_resp, report,
                   exc, calls, stderr, otherThanEval>>

\* lines 281-282: the directory or the file cannot be created
WriteFails ==
    /\ pc = "write"
    /\ exc' = [type |-> "OSError", msg |-> JStr("permission denied")]
    /\ pc' = "raised"
    /\ UNCHANGED <<args, fidelity_resp, bundle_resp, image_similarity_resp, report,
                   calls, outFile, stdout, stderr, exitStatus, otherThanEval>>

\* lines 291-293: the handler of the entry point
MainExcept ==
    /\ pc = "raised"
    /\ stderr' = Append(stderr, [prefix |-> "Error: ", exc |-> exc.msg])
    /\ exitStatus' = 1
    /\ pc' = "done"
    /\ UNCHANGED <<args, fidelity_resp, bundle_resp, image_similarity_resp, report,
                   exc, calls, outFile, stdout, otherThanEval>>

EvalNext ==
    \/ CallFidelityLoop
    \/ CallNodeBundle
    \/ SkipImageSimilarity
    \/ CallImageSimilarity
    \/ BuildReport
    \/ WriteReport
    \/ WriteFails
    \/ MainExcept

InitEval == EvalInit /\ CountIdle /\ CovIdle /\ ImgIdle /\ AgentIdle

SpecEval == InitEval /\ [][EvalNext]_vars

(***************************************************************************)
(* The polling agent (figma-agent.py).  http_get and http_post return None *)
(* on every failure (lines 43-73), so a call is modelled by what it        *)
(* returns: None or the JSON value the server sent.                        *)
(***************************************************************************)
OLLAMA_MODEL == "qwen3-coder:30b"

\* hash(x) raises TypeError for a list or a dict
Hashable(x) == ~IsList(x) /\ ~IsDict(x)

KnownPlatforms == {"react", "swiftui", "flutter", "compose"}

\* get_system_prompt(platform), for a hashable platform
get_system_prompt(p) ==
    IF IsStr(p) /\ p.v \in KnownPlatforms THEN <<"prompt for", p.v>>
    ELSE <<"prompt for", "any">>

\* call_ollama(prompt, platform), given what the post to Ollama returns
call_ollama(pr, pl, reply) ==
    IF ~Hashable(pl) THEN Raised("TypeError", JStr("unhashable type"))
    ELSE IF ~Truthy(reply) THEN Returned(JStr("// Error: Ollama request failed"))
    ELSE IF ~IsDict(reply) THEN Raised("AttributeError", JStr("get"))
    ELSE Returned(Get(reply, "response", JStr("// No response from Ollama")))

\* the payload call_ollama posts
OllamaPayload(pr, pl) ==
    [model |-> OLLAMA_MODEL, prompt |-> pr, system |-> get_system_prompt(pl),
     stream |-> FALSE]

\* the requests the queue may hold
Request(id, fields) == JDict(("id" :> id) @@ fields)

PendingRequests ==
    { Request(JStr("r1"), [platform |-> JStr("react"), prompt |-> JStr("p1")]),
      Request(JStr("r2"), EmptyMap),
      Request(JNum(7), [platform |-> JStr("vue"), prompt |-> JStr("p2")]),
      Request(JStr("r3"), [platform |-> JNull]),
      Request(JStr("r4"), [platform |-> JList(<<JStr("react")>>),
                           prompt |-> JStr("p4")]),
      JDict([platform |-> JStr("react"), prompt |-> JStr("p5")]),
      JStr("r6") }

\* what GET /agent/pending may return
PollResults ==
    { PyNone, JDict(EmptyMap), JDict([status |-> JStr("ok")]),
      JDict([pending |-> JList(<<>>)]),
      JList(<<JStr("pending")>>),
      JDict([pending |-> JDict([first |-> JStr("r1")])]) }
    \cup { JDict([pending |-> JList(<<r>>)]) : r \in PendingRequests }
    \cup { JDict([pending |-> JList(<<r, s>>)]) :
              r \in PendingRequests,
              s \in { Request(JStr("r8"), [prompt |-> JStr("p8")]) } }

\* what POST to Ollama may return
OllamaReplies ==
    { PyNone, JDict(EmptyMap), JDict([response |-> JStr("code")]),
      JDict([response |-> JNull]), JDict([done |-> JBool(TRUE)]),
      JList(<<JStr("code")>>) }

\* what POST /agent/result may return
SubmitReplies == { PyNone, JDict(EmptyMap), JDict([ok |-> JBool(TRUE)]) }

AgentInit ==
    /\ running = TRUE
    /\ apc = "loop"
    /\ data = Idle
    /\ req_id = Idle
    /\ platform = Idle
    /\ prompt = Idle
    /\ code = Idle
    /\ ollamaCalls = <<>>
    /\ submissions = <<>>
    /\ stopLog = <<>>

\* the longest record kept of the steps taken after a signal
MaxStopLog == 4

\* the record of a step taken for a request while running is False
Logged(event) ==
    IF ~running /\ Len(stopLog) < MaxStopLog THEN Append(stopLog, event)
    ELSE stopLog

otherThanAgent == <<countVars, covVars, imgVars, evalVars>>

\* lines 34-37: SIGINT or SIGTERM arrives
SignalHandler ==
    /\ apc \notin {"idle", "stopped"}
    /\ running' = FALSE
    /\ UNCHANGED <<apc, data, req_id, platform, prompt, code, ollamaCalls,
                   submissions, stopLog, otherThanAgent>>

\* a loop that tests the flag only after an iteration that posted nothing
LoopTest_Mutant ==
    /\ apc = "loop"
    /\ IF running \/ submissions # <<>>
       THEN /\ apc' = "poll"
            /\ ollamaCalls' = <<>>
            /\ submissions' = <<>>
       ELSE /\ apc' = "stopped"
            /\ UNCHANGED <<ollamaCalls, submissions>>
    /\ UNCHANGED <<running, data, req_id, platform, prompt, code, stopLog,
                   otherThanAgent>>

\* line 107: the loop condition; a new iteration starts or the loop ends
LoopTest ==
    /\ apc = "loop"
    /\ IF running
       THEN /\ apc' = "poll"
            /\ ollamaCalls' = <<>>
            /\ submissions' = <<>>
       ELSE /\ apc' = "stopped"
            /\ UNCHANGED <<ollamaCalls, submissions>>
    /\ UNCHANGED <<running, data, req_id, platform, prompt, code, stopLog,
                   otherThanAgent>>

\* lines 110-126: the poll, and what is read from its first pending request
Poll ==
    /\ apc = "poll"
    /\ \E d \in PollResults :
          /\ data' = d
          /\ IF ~Truthy(d) THEN
                 apc' = "sleep" /\ UNCHANGED <<req_id, platform, prompt>>
             ELSE IF ~IsDict(d) THEN
                 apc' = "except" /\ UNCHANGED <<req_id, platform, prompt>>
             ELSE LET pending == Get(d, "pending", JList(<<>>))
                  IN  IF ~Truthy(pending) THEN
                          apc' = "sleep" /\ UNCHANGED <<req_id, platform, prompt>>
                      ELSE IF ~IsList(pending) \/ ~IsDict(pending.v[1])
                              \/ "id" \notin DOMAIN pending.v[1].v THEN
                          apc' = "except" /\ UNCHANGED <<req_id, platform, prompt>>
                      ELSE LET req == pending.v[1]
                           IN  /\ req_id' = req.v["id"]
                               /\ platform' = Get(req, "platform", JStr("react"))
                               /\ prompt' = Get(req, "prompt", JStr(""))
                               /\ apc' = "ollama"
    /\ stopLog' = IF apc' = "ollama" THEN Logged(<<"request", req_id'>>) ELSE stopLog
    /\ UNCHANGED <<running, code, ollamaCalls, submissions, otherThanAgent>>

\* lines 112 and 117: time.sleep(POLL_INTERVAL), then continue
Sleep ==
    /\ apc = "sleep"
    /\ apc' = "loop"
    /\ UNCHANGED <<running, data, req_id, platform, prompt, code, ollamaCalls,
                   submissions, stopLog, otherThanAgent>>

\* line 129: code = call_ollama(prompt, platform)
CallOllama ==
    /\ apc = "ollama"
    /\ \E reply \in OllamaReplies :
          LET r == call_ollama(prompt, platform, reply)
          IN  /\ ollamaCalls' = IF Hashable(platform)
                                THEN Append(ollamaCalls,
                                            [payload |-> OllamaPayload(prompt, platform),
                                             reply |-> reply])
                                ELSE ollamaCalls
              /\ IF r.raised
                 THEN apc' = "except" /\ UNCHANGED code
                 ELSE apc' = "submit" /\ code' = r.value
    /\ stopLog' = Logged(<<"ollama", req_id>>)
    /\ UNCHANGED <<running, data, req_id, platform, prompt, submissions,
                   otherThanAgent>>

\* lines 132-141: the result is posted once and the outcome logged
SubmitResult ==
    /\ apc = "submit"
    /\ \E reply \in SubmitReplies :
          submissions' = Append(submissions,
                                [request_id |-> req_id, code |-> code,
                                 accepted |-> Truthy(reply)])
    /\ apc' = "loop"
    /\ stopLog' = Logged(<<"submit", req_id>>)
    /\ UNCHANGED <<running, data, req_id, platform, prompt, code, ollamaCalls,
                   otherThanAgent>>

\* lines 143-145: the error is logged and the agent sleeps
Except ==
    /\ apc = "except"
    /\ apc' = "loop"
    /\ UNCHANGED <<running, data, req_id, platform, prompt, code, ollamaCalls,
                   submissions, stopLog, otherThanAgent>>

AgentNext ==
    \/ SignalHandler
    \/ LoopTest
    \/ Poll
    \/ Sleep
    \/ CallOllama
    \/ SubmitResult
    \/ Except

InitAgent == AgentInit /\ CountIdle /\ CovIdle /\ ImgIdle /\ EvalIdle

SpecAgent == InitAgent /\ [][AgentNext]_vars

\* every HTTP call and every sleep returns, and the loop goes on to its next
\* statement; nothing obliges a signal to arrive
AgentFairness ==
    /\ WF_vars(LoopTest)
    /\ WF_vars(Poll)
    /\ WF_vars(Sleep)
    /\ WF_vars(CallOllama)
    /\ WF_vars(SubmitResult)
    /\ WF_vars(Except)

SpecAgentLive == InitAgent /\ [][AgentNext]_vars /\ AgentFairness

(***************************************************************************)
(* C1: the reference count                                                 *)
(***************************************************************************)
\* the two predicates, on a node (a dict)
IsTextNode(node) ==
    /\ "meta" \in DOMAIN node.v
    /\ IsDict(node.v["meta"])
    /\ "type" \in DOMAIN node.v["meta"].v
    /\ node.v["meta"].v["type"] = JStr("TEXT")

HasSegments(node) ==
    /\ "text" \in DOMAIN node.v
    /\ IsDict(node.v["text"])
    /\ "segments" \in DOMAIN node.v["text"].v
    /\ IsList(node.v["text"].v["segments"])

Holds(pred, node) ==
    IF pred = "text" THEN IsTextNode(node) ELSE HasSegments(node)

\* the children of a node: absent or not a list counts as no children
ChildrenOf(node) ==
    IF "children" \in DOMAIN node.v /\ IsList(node.v["children"])
    THEN node.v["children"].v ELSE <<>>

RECURSIVE SeqSum(_)
SeqSum(s) == IF s = <<>> THEN 0 ELSE Head(s) + SeqSum(Tail(s))

RECURSIVE RefCount(_, _)
RefCount(pred, val) ==
    IF IsDict(val) THEN
        (IF Holds(pred, val) THEN 1 ELSE 0)
        + SeqSum([i \in 1..Len(ChildrenOf(val)) |-> RefCount(pred, ChildrenOf(val)[i])])
    ELSE IF IsList(val) THEN
        SeqSum([i \in 1..Len(val.v) |-> RefCount(pred, val.v[i])])
    ELSE 0

\* C1: for every input value, both tree counters return a number, and it is
\* the reference count: on a node, 1 if the predicate holds plus the counts
\* of the children (none when children is absent or not a list); on a list,
\* the sum over its elements; on anything else, 0.
C1_CountersMatchReference ==
    cResult # Idle =>
        /\ cResult.dsl \in Nat
        /\ cResult.segments \in Nat
        /\ cResult.dsl = RefCount("text", cInput)
        /\ cResult.segments = RefCount("segments", cInput)

\* a TEXT node whose children is not a list, nested in a list, has been counted
C1_Witness ==
    /\ cResult # Idle
    /\ IsList(cInput)
    /\ \E i \in 1..Len(cInput.v) :
          /\ IsDict(cInput.v[i])
          /\ IsTextNode(cInput.v[i])
          /\ "children" \in DOMAIN cInput.v[i].v
          /\ ~IsList(cInput.v[i].v["children"])
    /\ cResult.dsl >= 1

(***************************************************************************)
(* C2, C4, C5, C6: the coverage calculators                                *)
(***************************************************************************)
\* the missing field of a result is max(0, total - matched), hence >= 0
MissingOk(r, total, matched) ==
    /\ "missing" \in DOMAIN r
    /\ r.missing = Max(0, total - matched)
    /\ r.missing >= 0

\* C2 as stated: every result of each of the three calculators carries a
\* missing field equal to max(0, total - matched), which is >= 0.
C2_EveryResultHasMissing ==
    Summarized =>
        /\ MissingOk(summary.image_fill_coverage,
                     summary.image_fill_coverage.total,
                     summary.image_fill_coverage.present)
        /\ MissingOk(summary.variables_resolved,
                     summary.variables_resolved.total,
                     summary.variables_resolved.resolved)
        /\ MissingOk(summary.text_segments,
                     summary.text_segments.total_text_nodes,
                     summary.text_segments.nodes_with_segments)

\* C2 amended: the results of image_fill_coverage and text_segment_coverage,
\* and the result of variables_resolved_ratio unless it is the error result,
\* carry missing = max(0, total - matched) >= 0; the error result of
\* variables_resolved_ratio (total 1, resolved 0, error) has no missing field.
C2_MissingUnlessErrorResult ==
    Summarized =>
        /\ MissingOk(summary.image_fill_coverage,
                     summary.image_fill_coverage.total,
                     summary.image_fill_coverage.present)
        /\ MissingOk(summary.text_segments,
                     summary.text_segments.total_text_nodes,
                     summary.text_segments.nodes_with_segments)
        /\ IF "error" \in DOMAIN summary.variables_resolved
           THEN DOMAIN summary.variables_resolved = {"total", "resolved", "error"}
           ELSE MissingOk(summary.variables_resolved,
                          summary.variables_resolved.total,
                          summary.variables_resolved.resolved)

\* the captured tree over-reports, so total - matched is negative and floored
C2_Witness ==
    /\ Summarized
    /\ summary.text_segments.nodes_with_segments
           > summary.text_segments.total_text_nodes
    /\ summary.text_segments.missing = 0

\* the variable bundle of the parsed bundle, when it is a mapping
VariableBundle == Get(bundle, "variables", JDict(EmptyMap))
IsErrorSentinel == IsDict(VariableBundle) /\ "error" \in DOMAIN VariableBundle.v

\* the keys of the mapping stored under key; none when it is absent or no mapping
KeysOf(key) ==
    IF IsDict(VariableBundle) /\ key \in DOMAIN VariableBundle.v
       /\ IsDict(VariableBundle.v[key])
    THEN DOMAIN VariableBundle.v[key].v ELSE {}

\* C4: a variable bundle holding the error key gives total 1, resolved 0 and
\* the error message, whatever else it holds; any other bundle gives the
\* number of keys of the raw mapping as total and of the resolved mapping as
\* matched, and no error field, so the error result (total 1) is never the
\* result of an empty bundle (total 0).
C4_VariablesResolvedRatio ==
    Summarized =>
        LET r == summary.variables_resolved
        IN  IF IsErrorSentinel
            THEN r = [total |-> 1, resolved |-> 0,
                      error |-> VariableBundle.v["error"]]
            ELSE /\ "error" \notin DOMAIN r
                 /\ r.total = Cardinality(KeysOf("variables"))
                 /\ r.resolved = Cardinality(KeysOf("resolved"))
                 /\ (KeysOf("variables") = {} => r.total = 0)

\* an error sentinel that also holds raw and resolved mappings
C4_Witness ==
    /\ Summarized
    /\ IsErrorSentinel
    /\ Cardinality(KeysOf("variables")) = 2
    /\ Cardinality(KeysOf("resolved")) = 1
    /\ summary.variables_resolved.total = 1

\* the asset-reference list and the fill map of the parsed bundle
RefList ==
    LET dsl == Get(bundle, "dsl_json", PyNone)
    IN  IF IsDict(dsl) /\ "assets" \in DOMAIN dsl.v /\ IsDict(dsl.v["assets"])
           /\ "image_refs" \in DOMAIN dsl.v["assets"].v
           /\ IsList(dsl.v["assets"].v["image_refs"])
        THEN dsl.v["assets"].v["image_refs"].v ELSE <<>>

FillMap ==
    LET fills == Get(bundle, "image_fills", PyNone)
    IN  IF IsDict(fills) /\ "images" \in DOMAIN fills.v /\ IsDict(fills.v["images"])
        THEN fills.v["images"].v ELSE EmptyMap

StringRefs == { i \in 1..Len(RefList) : IsStr(RefList[i]) }
FilledRefs == { i \in StringRefs : /\ RefList[i].v \in DOMAIN FillMap
                                   /\ IsStr(FillMap[RefList[i].v]) }

\* C5: total is the number of string entries of the reference list, matched
\* the number of those whose value in the fill map is a string, so matched
\* <= total; refs [a, b, c] with fills for a and c give 3, 2, 1.
C5_ImageFillCoverage ==
    Summarized =>
        LET r == summary.image_fill_coverage
        IN  /\ r.total = Cardinality(StringRefs)
            /\ r.present = Cardinality(FilledRefs)
            /\ r.present <= r.total
            /\ (/\ RefList = <<JStr("a"), JStr("b"), JStr("c")>>
                /\ FillMap = [a |-> JStr("data"), c |-> JStr("data")])
               => r = [total |-> 3, present |-> 2, missing |-> 1]

\* a non-string entry is discarded and a fill that is not a string is not matched
C5_Witness ==
    /\ Summarized
    /\ RefList = <<JStr("a"), JNum(7), JStr("b")>>
    /\ FillMap = [a |-> JStr("data"), b |-> JNull]
    /\ summary.image_fill_coverage = [total |-> 2, present |-> 1, missing |-> 1]

\* the authoritative tree and the captured tree of the parsed bundle
AuthoritativeTree == Get(bundle, "dsl_json", PyNone)
CapturedTree ==
    LET plugin == Get(bundle, "plugin_snapshot", PyNone)
    IN  IF IsDict(plugin) THEN Get(plugin, "payload", PyNone) ELSE PyNone

\* C6: total is the number of TEXT nodes of the authoritative tree, matched
\* the number of captured nodes whose segments are a list (an empty one
\* included), each counted on its own tree; when matched exceeds total,
\* missing is 0 and matched is reported as counted.
C6_TextSegmentCoverage ==
    Summarized =>
        LET r == summary.text_segments
            total == RefCount("text", AuthoritativeTree)
            matched == RefCount("segments", CapturedTree)
        IN  /\ r.total_text_nodes = total
            /\ r.nodes_with_segments = matched
            /\ r.missing = Max(0, total - matched)
            /\ (matched > total => r.missing = 0 /\ r.nodes_with_segments > total)

\* three TEXT nodes against two captured nodes, one with an empty segment list
C6_Witness ==
    /\ Summarized
    /\ RefCount("text", AuthoritativeTree) = 3
    /\ IsList(CapturedTree)
    /\ CapturedTree.v = <<SegLeaf, JDict([text |-> JDict([segments |-> JList(<<Segment>>)])])>>
    /\ summary.text_segments.total_text_nodes = 3
    /\ summary.text_segments.nodes_with_segments = 2
    /\ summary.text_segments.missing = 1

(***************************************************************************)
(* C7, C8: the image statistics                                            *)
(***************************************************************************)
RegionHeight == Min(Len(img1), Len(img2))
RegionWidth == Min(Len(img1[1]), Len(img2[1]))

\* the two matrices agree on every sample of the reconciled region
EqualOverRegion ==
    \A i \in 1..RegionHeight, j \in 1..RegionWidth : img1[i][j] = img2[i][j]

\* a reported psnr is the sentinel or the rounding of a finite value
FinitePsnr(p) ==
    \/ p = PsnrSentinel
    \/ /\ p # Infinity
       /\ p.k = "round2"
       /\ p.of.k = "10log10" /\ p.of.num > 0 /\ p.of.den > 0

\* C7: matrices equal over the reconciled region are reported with
\* ssim = 1.0, mse = 0 and the finite sentinel as psnr; no reported psnr is
\* infinite.
C7_IdenticalImages ==
    imgResult # Idle =>
        /\ FinitePsnr(imgResult.psnr)
        /\ EqualOverRegion =>
              /\ imgResult.ssim = Dec(1, 1, 0)
              /\ imgResult.mse = Dec(1, 0, 0)
              /\ imgResult.psnr = PsnrSentinel

\* a constant matrix compared with a larger one that extends it differently
C7_Witness ==
    /\ imgResult # Idle
    /\ img1 = <<<<MAX_PIXEL, MAX_PIXEL>>, <<MAX_PIXEL, MAX_PIXEL>>>>
    /\ img2 = <<<<MAX_PIXEL, MAX_PIXEL, 0>>>>
    /\ imgResult.psnr = PsnrSentinel
    /\ imgResult.ssim = Dec(1, 1, 0)

\* rows 1..h and columns 1..w of a matrix
TopLeft(img, h, w) == [i \in 1..h |-> SubSeq(img[i], 1, w)]

\* C8: for matrices of differing dimensions, ssim, mse and psnr each equal
\* the same statistic of the two matrices cut to rows 1..min(h1, h2) and
\* columns 1..min(w1, w2), so all three use that one region and no sample
\* outside it has any influence.
C8_TopLeftCrop ==
    (imgResult # Idle /\ Shape(img1) # Shape(img2)) =>
        LET a == TopLeft(img1, RegionHeight, RegionWidth)
            b == TopLeft(img2, RegionHeight, RegionWidth)
        IN  /\ ssim(img1, img2) = ssim(a, b)
            /\ mse(img1, img2) = mse(a, b)
            /\ psnr(img1, img2) = psnr(a, b)
            /\ imgResult = compare_images(a, b)

\* the matrices differ in both dimensions and outside the common region
C8_Witness ==
    /\ imgResult # Idle
    /\ Shape(img1) = <<2, 1>>
    /\ Shape(img2) = <<1, 2>>
    /\ img1[2][1] # img1[1][1]
    /\ img2[1][2] # img2[1][1]
    /\ img1[1][1] = img2[1][1]
    /\ imgResult.mse = Dec(1, 0, 0)

(***************************************************************************)
(* C3: the verdict of the report                                           *)
(***************************************************************************)
ReportWritten == pc = "done" /\ outFile # Idle

\* the report holds a pass flag, at the top or in its summary
HasPassFlag(r) == "pass" \in DOMAIN r \/ "pass" \in DOMAIN r.summary
PassFlag(r) == IF "pass" \in DOMAIN r THEN r["pass"] ELSE r.summary["pass"]

\* a metric that was supplied meets the threshold the caller configured:
\* the fidelity score against --target-score, the ssim against --target-ssim
ScoreSupplied ==
    IsDict(fidelity_resp.parsed) /\ "best_score" \in DOMAIN fidelity_resp.parsed.v
SsimSupplied ==
    /\ image_similarity_resp # PyNone
    /\ IsDict(image_similarity_resp.parsed)
    /\ "ssim" \in DOMAIN image_similarity_resp.parsed.v
    /\ args.target_ssim # PyNone
SuppliedMetricsMeetThresholds ==
    /\ ScoreSupplied => fidelity_resp.parsed.v["best_score"].v >= args.target_score.v
    /\ SsimSupplied => image_similarity_resp.parsed.v["ssim"].v >= args.target_ssim.v

SomeCallFailed == \E i \in 1..Len(calls) : ~calls[i].ok

\* the tools main calls, in order, for the arguments given
RequestedCalls ==
    <<"figma_fidelity_loop", "figma_get_node_bundle">>
    \o (IF Truthy(args.compare_node_id) THEN <<"figma_image_similarity">> ELSE <<>>)

AllCallsReturned ==
    /\ Len(calls) = Len(RequestedCalls)
    /\ \A i \in 1..Len(calls) : calls[i].tool = RequestedCalls[i] /\ calls[i].ok

\* C9: the report file is written only after every tool call has returned
\* without error; when a call fails the run ends with one error message and
\* exit status 1, and no report file is written, whatever the earlier calls
\* returned.
C9_NoReportAfterFailedCall ==
    pc # "idle" =>
        /\ outFile # Idle => AllCallsReturned
        /\ (pc = "done" /\ SomeCallFailed) =>
              /\ exitStatus = 1
              /\ Len(stderr) = 1
              /\ stdout = <<>>
              /\ outFile = Idle

\* the third call fails after two calls that succeeded
C9_Witness ==
    /\ pc = "done"
    /\ Len(calls) = 3
    /\ calls[1].ok /\ calls[2].ok /\ ~calls[3].ok
    /\ IsDict(fidelity_resp.parsed)
    /\ exitStatus = 1
    /\ outFile = Idle

(***************************************************************************)
(* C10: one submission per iteration                                       *)
(***************************************************************************)
\* the last poll returned a non-empty pending list whose first request has an id
FirstRequestHasId ==
    /\ data # Idle
    /\ IsDict(data)
    /\ "pending" \in DOMAIN data.v
    /\ IsList(data.v["pending"])
    /\ data.v["pending"].v # <<>>
    /\ IsDict(data.v["pending"].v[1])
    /\ "id" \in DOMAIN data.v["pending"].v[1].v

FirstRequest == data.v["pending"].v[1]

\* the iteration that polled data is over
IterationOver == apc = "loop"

\* the code submitted when the post to Ollama returned nothing
OllamaFailed == JStr("// Error: Ollama request failed")

\* C10: an iteration whose poll returns a non-empty pending list with a
\* first request that has an id calls the model for that request only and
\* posts exactly one result, carrying that id; when the model call fails the
\* placeholder error string is the code that is posted.
C10_OneSubmissionPerIteration ==
    (IterationOver /\ FirstRequestHasId) =>
        /\ Len(submissions) = 1
        /\ submissions[1].request_id = FirstRequest.v["id"]
        /\ Len(ollamaCalls) <= 1
        /\ \A i \in 1..Len(ollamaCalls) :
              /\ ollamaCalls[i].payload.prompt = Get(FirstRequest, "prompt", JStr(""))
              /\ ollamaCalls[i].reply = PyNone => submissions[1].code = OllamaFailed

\* the iteration left the try block through an exception of call_ollama
CallOllamaRaised ==
    \/ ~Hashable(platform)
    \/ /\ ollamaCalls # <<>>
       /\ Truthy(ollamaCalls[1].reply)
       /\ ~IsDict(ollamaCalls[1].reply)

\* C10, where the code agrees with it: the same holds of every such
\* iteration in which call_ollama returns, and an iteration in which it
\* raises posts nothing.
C10_OneSubmissionUnlessRaised ==
    (IterationOver /\ FirstRequestHasId) =>
        IF CallOllamaRaised
        THEN submissions = <<>>
        ELSE /\ Len(submissions) = 1
             /\ submissions[1].request_id = FirstRequest.v["id"]
             /\ Len(ollamaCalls) = 1
             /\ ollamaCalls[1].payload.prompt = Get(FirstRequest, "prompt", JStr(""))
             /\ ~Truthy(ollamaCalls[1].reply) => submissions[1].code = OllamaFailed

\* an iteration for a request whose platform is a list ends with nothing posted
C10_Unsubmitted ==
    /\ IterationOver
    /\ FirstRequestHasId
    /\ IsList(platform)
    /\ submissions = <<>>

(***************************************************************************)
(* C11: shutdown on SIGINT or SIGTERM                                      *)
(***************************************************************************)
\* the steps of one kind recorded after the signal
StopEvents(kind) == { i \in 1..Len(stopLog) : stopLog[i][1] = kind }

\* once False, the flag is never True again
FlagStaysDown == [][running = FALSE => running' = FALSE]_vars

\* after the signal the agent takes up, generates for and posts for at most
\* one request, in that order and for one and the same request id
AtMostOneFurtherRequest ==
    /\ \A kind \in {"request", "ollama", "submit"} :
          Cardinality(StopEvents(kind)) <= 1
    /\ \A i, j \in 1..Len(stopLog) : stopLog[i][2] = stopLog[j][2]
    /\ \A i \in StopEvents("request") : i = 1
    /\ \A i \in StopEvents("ollama") : \A j \in StopEvents("submit") : i < j

\* the iteration under way is carried through: when call_ollama returned
\* after the signal, the loop ends only after the result was posted
IterationCompleted ==
    (apc = "stopped" /\ StopEvents("ollama") # {} /\ ~CallOllamaRaised) =>
        /\ StopEvents("submit") # {}
        /\ Len(submissions) = 1
        /\ submissions[1].request_id = req_id

\* the loop has ended
LoopExited == apc = "stopped"

=============================================================================
